---- MODULE Spec2Model ----
(***************************************************************************)
(* Model of the graph indexer worker (src/src/index.js): the outbox table  *)
(* outbox_graph_events, the claim statement of claimBatch, the per-record  *)
(* dispatch and outcome write-back of worker(), run by several worker      *)
(* processes against one table, the operator's resets of processing rows   *)
(* (docs/GRAPH_INDEXER.md) and of failed rows (deployment runbook), the    *)
(* process's startup and its SIGINT/SIGTERM handlers, and the Cypher       *)
(* statements of the three transformers against the graph store.           *)
(***************************************************************************)
EXTENDS Integers, Sequences, FiniteSets, TLC

\* ---------------------------------------------------------------- bounds
BATCH_SIZE == 2          \* process.env.BATCH_SIZE (index.js:32), kept small
MaxFaults == 1           \* store calls (session.run, client.query) that reject in one run
MaxResets == 1           \* reset statements the operator runs in one run
MaxRuns == 3             \* Cypher statements (session.run) started in one run
MaxReps == 3             \* times one payload is applied again to a graph

\* ------------------------------------------------------- program constants
MAX_ATTEMPTS == 5        \* the literal 5 of index.js:224

Workers == {"w1", "w2"}  \* worker processes running against one table
NoError == "null"        \* SQL NULL in the error column

\* The rows the producer has inserted, by id: an event_type, a payload and an
\* occurred_at (ids are not in occurred_at order, and two rows share a time).
\* A field that is absent or empty is "" (both are falsy for the `!field` tests).
Inserted ==
  << [event_type |-> "triple.insert", occurred_at |-> 2,
      payload |-> [subject |-> "A", predicate |-> "knows", object |-> "B"]],
     [event_type |-> "triple.insert", occurred_at |-> 1,
      payload |-> [subject |-> "", predicate |-> "knows", object |-> "B"]],
     [event_type |-> "unknown.future_kind", occurred_at |-> 2,
      payload |-> [subject |-> "", predicate |-> "", object |-> ""]],
     [event_type |-> "factlet.insert", occurred_at |-> 3,
      payload |-> [crouton_id |-> "c1", source_url |-> "https://a.example/p"]],
     [event_type |-> "source_participation.insert", occurred_at |-> 1,
      payload |-> [crouton_id |-> "c1", source_domain |-> "",
                   source_url |-> "https://a.example/p"]],
     [event_type |-> "factlet.insert", occurred_at |-> 3,
      payload |-> [crouton_id |-> "c2", source_url |-> ""]] >>


\* Messages of the errors a record's processing can be caught with.
TripleFieldsMsg == "Missing required triple fields"
FactletFieldsMsg == "Missing required factlet fields"
ParticipationFieldsMsg == "Missing required source participation fields"
StoreErrorMsg == "graph store error"
QueryErrorMsg == "relational store error"

VARIABLES
  outbox,          \* the table: id -> row
  locked,          \* worker -> ids whose row lock its claim statement holds
  pc,              \* worker -> position in worker()
  batch,           \* worker -> rows returned by its claim (const batch)
  pos,             \* worker -> index in batch of the record `ev` of the for loop
  errorMsg,        \* worker -> message of the error caught at line 221
  graphWrites,     \* ids of the events whose session.run completed
  concurrentWith,  \* worker -> ids taken by claims overlapping its claim in flight
  soloClaim,       \* worker -> [solo, pending]: its claim in flight overlaps no other
                   \*   claim, and these were the pending rows when its subselect ran
  faults,          \* store calls that have rejected so far
  resets,          \* reset statements run so far
  stores,          \* [db, graph]: whether each store can be reached
  sig,             \* worker -> position of its SIGINT/SIGTERM handler
  exitCode,        \* worker -> code its process exited with, -1 while it runs
  claimCount,      \* observed id -> number of claims that have returned the row
  sinceWait,       \* worker -> observed ids it has processed since its last wait
  graph,           \* the graph store: [nodes, rels]
  run,             \* worker -> the Cypher statement its session is executing
  runs             \* Cypher statements started so far

\* What no step of the worker loop changes.
procVars == <<stores, sig, exitCode>>

\* The graph store's content and the statements in flight.
graphVars == <<graph, run, runs>>

vars == <<outbox, locked, pc, batch, pos, errorMsg, graphWrites,
          concurrentWith, soloClaim, faults, resets, stores, sig, exitCode, claimCount,
          sinceWait,
          graph, run, runs>>

Ids == DOMAIN outbox

NoSolo == [solo |-> FALSE, pending |-> {}]

NoProps == [k \in {} |-> ""]                 \* no properties
Null == "null"                               \* a property that is not set
EmptyGraph == [nodes |-> {}, rels |-> {}]
NoRun == [event_type |-> "none"]             \* the session executes nothing

Min(a, b) == IF a < b THEN a ELSE b
Max(a, b) == IF a > b THEN a ELSE b

\* ------------------------------------------------------------------ Init
\* Rows as the producer inserts them: status pending, attempts 0, error NULL
\* (table defaults, docs/GRAPH_INDEXER.md:92-94).
\* The state when the processes `procs` are at position `at` of worker() on a
\* table holding `inserted`, the stores reachable as `up` says; a worker outside
\* procs is "off" and never runs; the claims of the rows `counted` are counted.
Boot(inserted, procs, counted, at, up) ==
  /\ outbox = [id \in DOMAIN inserted |->
                 [status |-> "pending", attempts |-> 0, error |-> NoError,
                  occurred_at |-> inserted[id].occurred_at,
                  event_type |-> inserted[id].event_type,
                  payload |-> inserted[id].payload]]
  /\ locked = [w \in Workers |-> {}]
  /\ pc = [w \in Workers |-> IF w \in procs THEN at ELSE "off"]
  /\ batch = [w \in Workers |-> <<>>]
  /\ pos = [w \in Workers |-> 0]
  /\ errorMsg = [w \in Workers |-> NoError]
  /\ graphWrites = {}
  /\ concurrentWith = [w \in Workers |-> {}]
  /\ soloClaim = [w \in Workers |-> NoSolo]
  /\ faults = 0
  /\ resets = 0
  /\ stores = up
  /\ sig = [w \in Workers |-> "none"]
  /\ exitCode = [w \in Workers |-> -1]
  /\ claimCount = [id \in counted |-> 0]
  /\ sinceWait = [w \in Workers |-> {}]
  /\ graph = EmptyGraph
  /\ run = [w \in Workers |-> NoRun]
  /\ runs = 0

BothUp == [db |-> TRUE, graph |-> TRUE]

\* The state when the processes `procs` have connected (index.js:185-186) and
\* both stores are up.
Start(inserted, procs, counted) == Boot(inserted, procs, counted, "idle", BothUp)

\* Two workers on the two triple.insert rows.
Init == Start(SubSeq(Inserted, 1, 2), Workers, {})

\* One worker on all the rows.
InitSolo == Start(Inserted, {"w1"}, {})

\* One worker on three rows: a well-formed triple, a malformed one and one of
\* an unknown kind.
InitSignal == Start(SubSeq(Inserted, 1, 3), {"w1"}, {})

\* The sessions of two workers, each inside a transformer call, on an empty graph.
InitGraph == Boot(<<>>, Workers, {}, "transforming", BothUp)

\* One worker's session on an empty graph.
InitGraphSolo == Boot(<<>>, {"w1"}, {}, "transforming", BothUp)

\* One process is launched on the same three rows, each store in or out of reach.
InitStartup ==
  \E up \in [db : BOOLEAN, graph : BOOLEAN] :
    Boot(SubSeq(Inserted, 1, 3), {"w1"}, {}, "starting", up)

\* One worker on one well-formed triple.insert row whose claims are counted,
\* the graph store out of reach.
InitDeadLetter ==
  Boot(SubSeq(Inserted, 1, 1), {"w1"}, {1}, "idle", [db |-> TRUE, graph |-> FALSE])

\* A store call rejects: one more fault of the run.
Fault == faults < MaxFaults /\ faults' = faults + 1

\* ------------------------------------------------------------ claimBatch
LockedByOther(w, id) == \E v \in Workers \ {w} : id \in locked[v]
LockedByAny(id) == \E v \in Workers : id \in locked[v]

\* Mutant: the status filter lets every row that is not done through.
NotDone == { id \in Ids : outbox[id].status # "done" }

Pending == { id \in Ids : outbox[id].status = "pending" }

\* Mutant: the subselect without SKIP LOCKED (and without waiting for the lock).
ClaimableNoSkip == Pending

\* WHERE status='pending' ... FOR UPDATE SKIP LOCKED: the rows the subselect can take.
Claimable == { id \in Pending : ~LockedByAny(id) }

\* Mutant: LIMIT without the ORDER BY.
AnyRows(cand, limit) ==
  { S \in SUBSET cand : Cardinality(S) = Min(limit, Cardinality(cand)) }

\* ORDER BY occurred_at ASC LIMIT $1: the sets of `limit` oldest rows of cand
\* (all of cand when it has fewer); rows of equal occurred_at tie freely.
OldestFirst(cand, limit) ==
  { S \in SUBSET cand :
      /\ Cardinality(S) = Min(limit, Cardinality(cand))
      /\ \A s \in S : \A u \in cand \ S : outbox[s].occurred_at <= outbox[u].occurred_at }

\* The orders in which RETURNING * can deliver the updated rows S: the ORDER BY
\* is inside the IN-subselect and orders the choice of ids, not the UPDATE's output.
Returning(S) ==
  { q \in [1..Cardinality(S) -> S] : \A i, j \in 1..Cardinality(S) : i # j => q[i] # q[j] }

\* Mutant: FOR UPDATE without SKIP LOCKED: the subselect waits for the locks
\* other statements hold on pending rows.
ClaimSelectWaits(w) ==
  /\ pc[w] = "idle"
  /\ \A id \in Pending : ~LockedByAny(id)
  /\ \E S \in OldestFirst(Pending, BATCH_SIZE) :
       /\ locked' = [locked EXCEPT ![w] = S]
       /\ concurrentWith' =
            [v \in Workers |->
               IF v = w THEN UNION { locked[u] : u \in Workers \ {w} }
               ELSE IF pc[v] = "claiming" THEN concurrentWith[v] \cup S
               ELSE concurrentWith[v]]
  /\ soloClaim' =
       [v \in Workers |->
          IF v = w
            THEN [solo |-> \A u \in Workers \ {w} : pc[u] # "claiming",
                  pending |-> Pending]
            ELSE IF pc[v] = "claiming" THEN NoSolo ELSE soloClaim[v]]
  /\ pc' = [pc EXCEPT ![w] = "claiming"]
  /\ UNCHANGED <<outbox, batch, pos, errorMsg, graphWrites, faults, resets, procVars,
                 claimCount, sinceWait, graphVars>>

\* The subselect of claimBatch runs: the chosen rows are row-locked.
ClaimSelect(w) ==
  /\ pc[w] = "idle"
  /\ \E S \in OldestFirst(Claimable, BATCH_SIZE) :
       /\ locked' = [locked EXCEPT ![w] = S]
       /\ concurrentWith' =
            [v \in Workers |->
               IF v = w THEN UNION { locked[u] : u \in Workers \ {w} }
               ELSE IF pc[v] = "claiming" THEN concurrentWith[v] \cup S
               ELSE concurrentWith[v]]
  /\ soloClaim' =
       [v \in Workers |->
          IF v = w
            THEN [solo |-> \A u \in Workers \ {w} : pc[u] # "claiming",
                  pending |-> Pending]
            ELSE IF pc[v] = "claiming" THEN NoSolo ELSE soloClaim[v]]
  /\ pc' = [pc EXCEPT ![w] = "claiming"]
  /\ UNCHANGED <<outbox, batch, pos, errorMsg, graphWrites, faults, resets, procVars,
                 claimCount, sinceWait, graphVars>>

\* Mutant: the claim returns the rows without marking them.
ClaimedRowStaysPending(row) == row

\* Mutant: the claim counts an attempt.
ClaimedRowCountsAttempt(row) ==
  [row EXCEPT !.status = "processing", !.attempts = row.attempts + 1]

\* SET status='processing' (index.js:44)
ClaimedRow(row) == [row EXCEPT !.status = "processing"]

\* The UPDATE of claimBatch commits: status='processing', RETURNING * (index.js:43-52),
\* then the test of batch.length (index.js:196).
ClaimCommit(w) ==
  /\ pc[w] = "claiming"
  /\ outbox' = [id \in Ids |-> IF id \in locked[w] THEN ClaimedRow(outbox[id]) ELSE outbox[id]]
  /\ \E q \in Returning(locked[w]) :
       batch' = [batch EXCEPT ![w] =
                   [i \in 1..Cardinality(locked[w]) |->
                      [id |-> q[i], attempts |-> outbox[q[i]].attempts]]]
  /\ claimCount' = [id \in DOMAIN claimCount |->
                      IF id \in locked[w] THEN claimCount[id] + 1 ELSE claimCount[id]]
  /\ locked' = [locked EXCEPT ![w] = {}]
  /\ concurrentWith' = [concurrentWith EXCEPT ![w] = {}]
  /\ soloClaim' = [soloClaim EXCEPT ![w] = NoSolo]
  /\ IF locked[w] = {}
       THEN pc' = [pc EXCEPT ![w] = "sleeping"] /\ pos' = [pos EXCEPT ![w] = 0]
       ELSE pc' = [pc EXCEPT ![w] = "dispatch"] /\ pos' = [pos EXCEPT ![w] = 1]
  /\ UNCHANGED <<errorMsg, graphWrites, faults, resets, procVars, sinceWait, graphVars>>

\* Mutant: after a rejected claim the loop starts over without waiting.
ClaimFailsNoWait(w) ==
  /\ pc[w] = "claiming"
  /\ Fault
  /\ locked' = [locked EXCEPT ![w] = {}]
  /\ concurrentWith' = [concurrentWith EXCEPT ![w] = {}]
  /\ soloClaim' = [soloClaim EXCEPT ![w] = NoSolo]
  /\ pc' = [pc EXCEPT ![w] = "idle"]
  /\ batch' = [batch EXCEPT ![w] = <<>>]
  /\ pos' = [pos EXCEPT ![w] = 0]
  /\ UNCHANGED <<outbox, errorMsg, graphWrites, resets, procVars, claimCount, sinceWait,
                 graphVars>>

\* The claim query rejects (relational store unreachable): the statement's locks
\* are released, the catch of index.js:244-247 logs and waits.
ClaimFails(w) ==
  /\ pc[w] = "claiming"
  /\ Fault
  /\ locked' = [locked EXCEPT ![w] = {}]
  /\ concurrentWith' = [concurrentWith EXCEPT ![w] = {}]
  /\ soloClaim' = [soloClaim EXCEPT ![w] = NoSolo]
  /\ pc' = [pc EXCEPT ![w] = "sleeping"]
  /\ batch' = [batch EXCEPT ![w] = <<>>]
  /\ pos' = [pos EXCEPT ![w] = 0]
  /\ UNCHANGED <<outbox, errorMsg, graphWrites, resets, procVars, claimCount, sinceWait,
                 graphVars>>

\* setTimeout(r, POLL_INTERVAL_MS) elapses; the loop starts over (index.js:197, 246).
Sleep(w) ==
  /\ pc[w] = "sleeping"
  /\ pc' = [pc EXCEPT ![w] = "idle"]
  /\ sinceWait' = [sinceWait EXCEPT ![w] = {}]
  /\ UNCHANGED <<outbox, locked, batch, pos, errorMsg, graphWrites, concurrentWith, soloClaim,
                 faults, resets, procVars, claimCount, graphVars>>

\* ------------------------------------------------------------ transformers
ev(w) == batch[w][pos[w]]

\* !subject || !predicate || !object (index.js:62)
MissingTripleFields(payload) ==
  payload.subject = "" \/ payload.predicate = "" \/ payload.object = ""

\* The error of line 221 is caught: errorMsg is its message.
Caught(w, msg) ==
  /\ pc' = [pc EXCEPT ![w] = "caught"]
  /\ errorMsg' = [errorMsg EXCEPT ![w] = msg]

\* !crouton_id || !source_url (index.js:96)
MissingFactletFields(payload) ==
  payload.crouton_id = "" \/ payload.source_url = ""

\* !crouton_id || !source_domain || !source_url (index.js:137)
MissingParticipationFields(payload) ==
  payload.crouton_id = "" \/ payload.source_domain = "" \/ payload.source_url = ""

\* session.run can reach the graph store: the store is up and the process's
\* driver has not been closed (driver.close() of index.js:260, 267).
GraphUsable(w) == stores.graph /\ sig[w] = "none"

\* Mutant: the graph write is issued before the required fields are tested.
TransformWritesFirst(w, id, missing, msg) ==
  IF missing
    THEN Caught(w, msg) /\ graphWrites' = graphWrites \cup {id} /\ UNCHANGED faults
    ELSE /\ GraphUsable(w)
         /\ graphWrites' = graphWrites \cup {id}
         /\ pc' = [pc EXCEPT ![w] = "markDone"]
         /\ UNCHANGED <<errorMsg, faults>>

\* Mutant: a rejected session.run is swallowed and the record goes on to the
\* done write-back.
TransformSwallows(w, id, missing, msg) ==
  IF missing
    THEN Caught(w, msg) /\ UNCHANGED <<graphWrites, faults>>
    ELSE \/ /\ GraphUsable(w)
            /\ graphWrites' = graphWrites \cup {id}
            /\ pc' = [pc EXCEPT ![w] = "markDone"]
            /\ UNCHANGED <<errorMsg, faults>>
         \/ /\ Fault
            /\ pc' = [pc EXCEPT ![w] = "markDone"]
            /\ UNCHANGED <<errorMsg, graphWrites>>

\* Mutant: the transformer returns without calling session.run.
TransformSkipsWrite(w, id, missing, msg) ==
  IF missing
    THEN Caught(w, msg) /\ UNCHANGED <<graphWrites, faults>>
    ELSE /\ pc' = [pc EXCEPT ![w] = "markDone"]
         /\ UNCHANGED <<errorMsg, graphWrites, faults>>

\* A transformer's body: the validation throws msg when `missing`; otherwise its
\* one session.run completes (the event's MERGEs are in the graph) or rejects,
\* as it always does when the graph store cannot be reached.
Transform(w, id, missing, msg) ==
  IF missing
    THEN Caught(w, msg) /\ UNCHANGED <<graphWrites, faults>>
    ELSE \/ /\ GraphUsable(w)
            /\ graphWrites' = graphWrites \cup {id}
            /\ pc' = [pc EXCEPT ![w] = "markDone"]
            /\ UNCHANGED <<errorMsg, faults>>
         \/ GraphUsable(w) /\ Caught(w, StoreErrorMsg) /\ Fault /\ UNCHANGED graphWrites
         \/ ~GraphUsable(w) /\ Caught(w, StoreErrorMsg) /\ UNCHANGED <<graphWrites, faults>>

processTriple(w, id) ==
  Transform(w, id, MissingTripleFields(outbox[id].payload), TripleFieldsMsg)

processFactlet(w, id) ==
  Transform(w, id, MissingFactletFields(outbox[id].payload), FactletFieldsMsg)

processSourceParticipation(w, id) ==
  Transform(w, id, MissingParticipationFields(outbox[id].payload), ParticipationFieldsMsg)

\* The if/else chain on ev.event_type (index.js:205-213); an unknown event_type
\* is logged and falls through to the done write-back.
Dispatch(w) ==
  /\ pc[w] = "dispatch"
  /\ LET id == ev(w).id
         kind == outbox[id].event_type
     IN IF kind = "triple.insert" THEN processTriple(w, id)
        ELSE IF kind = "factlet.insert" THEN processFactlet(w, id)
        ELSE IF kind = "source_participation.insert" THEN processSourceParticipation(w, id)
        ELSE /\ pc' = [pc EXCEPT ![w] = "markDone"]
             /\ UNCHANGED <<errorMsg, graphWrites, faults>>
  /\ sinceWait' = [sinceWait EXCEPT ![w] = @ \cup ({ev(w).id} \cap DOMAIN claimCount)]
  /\ UNCHANGED <<outbox, locked, batch, pos, concurrentWith, soloClaim, resets, procVars,
                 claimCount, graphVars>>

\* ------------------------------------------------------- outcome write-back
\* The for loop moves to the next record, or the while loop to the next claim.
NextRecord(w) ==
  /\ errorMsg' = [errorMsg EXCEPT ![w] = NoError]
  /\ IF pos[w] < Len(batch[w])
       THEN /\ pos' = [pos EXCEPT ![w] = pos[w] + 1]
            /\ pc' = [pc EXCEPT ![w] = "dispatch"]
            /\ UNCHANGED batch
       ELSE /\ pos' = [pos EXCEPT ![w] = 0]
            /\ pc' = [pc EXCEPT ![w] = "idle"]
            /\ batch' = [batch EXCEPT ![w] = <<>>]

\* UPDATE ... SET status='done', attempts=attempts+1 WHERE id=$1 (index.js:216-219)
DoneRow(row) == [row EXCEPT !.status = "done", !.attempts = row.attempts + 1]

\* Mutant: newAttempts > 5 in place of newAttempts >= 5.
FailedRowOffByOne(row, evAttempts, msg) ==
  [row EXCEPT !.attempts = evAttempts + 1,
              !.status = IF evAttempts + 1 > MAX_ATTEMPTS THEN "failed" ELSE "pending",
              !.error = msg]

\* Mutant: the record is dead-lettered one attempt early.
FailedRowEarly(row, evAttempts, msg) ==
  [row EXCEPT !.attempts = evAttempts + 1,
              !.status = IF evAttempts + 1 >= MAX_ATTEMPTS - 1 THEN "failed" ELSE "pending",
              !.error = msg]

\* Mutant: the failure write-back does not give the record a new status.
FailedRowStaysProcessing(row, evAttempts, msg) ==
  [row EXCEPT !.attempts = evAttempts + 1, !.error = msg]

\* newAttempts, newStatus, errorMsg of index.js:222-231, from ev.attempts
FailedRow(row, evAttempts, msg) ==
  [row EXCEPT !.attempts = evAttempts + 1,
              !.status = IF evAttempts + 1 >= MAX_ATTEMPTS THEN "failed" ELSE "pending",
              !.error = msg]

\* An UPDATE of a row waits while another statement holds the row's lock.
MarkDone(w) ==
  /\ pc[w] = "markDone"
  /\ ~LockedByOther(w, ev(w).id)
  /\ outbox' = [outbox EXCEPT ![ev(w).id] = DoneRow(@)]
  /\ NextRecord(w)
  /\ UNCHANGED <<locked, graphWrites, concurrentWith, soloClaim, faults, resets, procVars,
                 claimCount, sinceWait, graphVars>>

\* The done UPDATE rejects: the catch of line 221 takes the error.
MarkDoneFails(w) ==
  /\ pc[w] = "markDone"
  /\ Caught(w, QueryErrorMsg)
  /\ Fault
  /\ UNCHANGED <<outbox, locked, batch, pos, graphWrites, concurrentWith, soloClaim, resets,
                 procVars, claimCount, sinceWait, graphVars>>

MarkFailed(w) ==
  /\ pc[w] = "caught"
  /\ ~LockedByOther(w, ev(w).id)
  /\ outbox' = [outbox EXCEPT ![ev(w).id] = FailedRow(@, ev(w).attempts, errorMsg[w])]
  /\ NextRecord(w)
  /\ UNCHANGED <<locked, graphWrites, concurrentWith, soloClaim, faults, resets, procVars,
                 claimCount, sinceWait, graphVars>>

\* The failure UPDATE rejects inside the catch block: the error leaves the for
\* loop to the catch of index.js:244-247, which logs and waits.
MarkFailedFails(w) ==
  /\ pc[w] = "caught"
  /\ Fault
  /\ pc' = [pc EXCEPT ![w] = "sleeping"]
  /\ batch' = [batch EXCEPT ![w] = <<>>]
  /\ pos' = [pos EXCEPT ![w] = 0]
  /\ errorMsg' = [errorMsg EXCEPT ![w] = NoError]
  /\ UNCHANGED <<outbox, locked, graphWrites, concurrentWith, soloClaim, resets, procVars,
                 claimCount, sinceWait, graphVars>>

\* ------------------------------------------------------------ graph store
\* The labels with a uniqueness constraint on id (setup-neo4j-constraints.js).
Constrained == {"Entity", "WebPage", "Factlet"}

\* The hex digest of String(str) (index.js:36-38), taken to be free of collisions.
sha256(str) == "sha256(" \o str \o ")"

\* Values new Date().toISOString() can return.
Clock == {"T1", "T2"}

\* x || y for strings: y when x is absent or empty.
OrElse(x, y) == IF x # "" THEN x ELSE y

\* The payloads the transformers are called with: a triple without created_at,
\* a factlet with it, and two source participations of one source_domain, the
\* first without first_observed and last_verified.
GraphEvents ==
  { [event_type |-> "triple.insert",
     payload |-> [subject |-> "A", predicate |-> "knows", object |-> "B", created_at |-> ""]],
    [event_type |-> "factlet.insert",
     payload |-> [crouton_id |-> "c1", source_url |-> "https://a.example/p", text |-> "",
                  created_at |-> "T0"]],
    [event_type |-> "source_participation.insert",
     payload |-> [crouton_id |-> "c1", source_domain |-> "a.example",
                  source_url |-> "https://a.example/p",
                  ai_readable_source |-> TRUE, markdown_discovered |-> FALSE,
                  discovery_method |-> "", first_observed |-> "", last_verified |-> ""]],
    [event_type |-> "source_participation.insert",
     payload |-> [crouton_id |-> "c2", source_domain |-> "a.example",
                  source_url |-> "https://a.example/q",
                  ai_readable_source |-> FALSE, markdown_discovered |-> FALSE,
                  discovery_method |-> "sitemap", first_observed |-> "T0",
                  last_verified |-> ""]] }

\* The (label, id) pairs of the nodes of g.
Keys(g) == { <<n.label, n.props.id>> : n \in g.nodes }

\* SET: the properties named in `set` take its values.
SetProps(props, set) ==
  [k \in DOMAIN props |-> IF k \in DOMAIN set THEN set[k] ELSE props[k]]

\* Mutant: CREATE in place of MERGE.
MergeNodeCreates(g, seen, label, created, set) ==
  LET nid == Cardinality(g.nodes) + 1
  IN [g |-> [g EXCEPT !.nodes = @ \cup {[nid |-> nid, label |-> label, props |-> created]}],
      bound |-> {nid}]

\* Mutant: a matched node takes the properties of the ON CREATE clause again.
MergeNodeOverwrites(g, seen, label, created, set) ==
  LET matches == { n \in g.nodes : n.label = label /\ n.props.id = created.id }
      found == IF label \in Constrained THEN matches # {}
               ELSE <<label, created.id>> \in seen
  IN IF found
       THEN [g |-> [g EXCEPT !.nodes =
                      { IF n \in matches THEN [n EXCEPT !.props = SetProps(created, set)]
                        ELSE n : n \in g.nodes }],
             bound |-> { n.nid : n \in matches }]
       ELSE LET nid == Cardinality(g.nodes) + 1
            IN [g |-> [g EXCEPT !.nodes =
                         @ \cup {[nid |-> nid, label |-> label, props |-> created]}],
                bound |-> {nid}]

\* MERGE (n:label {id: created.id}) ON CREATE SET created ON MATCH SET set.
\* With a uniqueness constraint the match and the creation are one step on the
\* store; without one the statement creates the node when its own match, made
\* when (label, id) pairs `seen` were in the store, found none.
MergeNode(g, seen, label, created, set) ==
  LET matches == { n \in g.nodes : n.label = label /\ n.props.id = created.id }
      found == IF label \in Constrained THEN matches # {}
               ELSE <<label, created.id>> \in seen
  IN IF found
       THEN [g |-> [g EXCEPT !.nodes =
                      { IF n \in matches THEN [n EXCEPT !.props = SetProps(@, set)] ELSE n :
                          n \in g.nodes }],
             bound |-> { n.nid : n \in matches }]
       ELSE LET nid == Cardinality(g.nodes) + 1
            IN [g |-> [g EXCEPT !.nodes =
                         @ \cup {[nid |-> nid, label |-> label, props |-> created]}],
                bound |-> {nid}]

\* MERGE (a)-[r:type {key}]->(b) ON CREATE SET created ON MATCH SET set, for every
\* pair of bound nodes; the statement holds the locks of the bound nodes.
MergeRel(g, type, from, to, created, key, set) ==
  LET Same(r, a, b) ==
        /\ r.type = type /\ r.from = a /\ r.to = b
        /\ \A k \in key : r.props[k] = created[k]
      matched == { r \in g.rels : \E a \in from, b \in to : Same(r, a, b) }
      missing == { ab \in from \X to : ~\E r \in g.rels : Same(r, ab[1], ab[2]) }
  IN [g EXCEPT !.rels =
        { IF r \in matched THEN [r EXCEPT !.props = SetProps(@, set)] ELSE r : r \in g.rels }
        \cup { [type |-> type, from |-> ab[1], to |-> ab[2], props |-> created] :
                 ab \in missing }]

\* The Cypher of processTriple (index.js:66-89).
TripleCypher(g, seen, payload, clock) ==
  LET now == OrElse(payload.created_at, clock)
      s == MergeNode(g, seen, "Entity",
                     [id |-> sha256(payload.subject), name |-> payload.subject,
                      created_at |-> now], NoProps)
      o == MergeNode(s.g, seen, "Entity",
                     [id |-> sha256(payload.object), name |-> payload.object,
                      created_at |-> now], NoProps)
  IN MergeRel(o.g, "ASSERTS", s.bound, o.bound,
              [predicate |-> payload.predicate, created_at |-> now, updated_at |-> Null],
              {"predicate"}, [updated_at |-> now])

\* The Cypher of processFactlet (index.js:100-121).
FactletCypher(g, seen, payload, clock) ==
  LET now == OrElse(payload.created_at, clock)
      f == MergeNode(g, seen, "Factlet",
                     [id |-> sha256(payload.crouton_id), fact_id |-> payload.crouton_id,
                      claim |-> OrElse(payload.text, ""), created_at |-> now], NoProps)
      w == MergeNode(f.g, seen, "WebPage",
                     [id |-> sha256(payload.source_url), url |-> payload.source_url,
                      created_at |-> now], NoProps)
  IN MergeRel(w.g, "FROM_PAGE", f.bound, w.bound, NoProps, {}, NoProps)

\* participationId = sha256(`${crouton_id}:${source_url}`) (index.js:141)
participationId(crouton_id, source_url) == sha256(crouton_id \o ":" \o source_url)

\* The Cypher of processSourceParticipation (index.js:141-178).
ParticipationCypher(g, seen, payload, clock) ==
  LET now == OrElse(payload.first_observed, clock)
      lastVerified == OrElse(payload.last_verified, now)
      sd == MergeNode(g, seen, "SourceDomain",
                      [id |-> sha256(payload.source_domain), name |-> payload.source_domain,
                       created_at |-> now], NoProps)
      c == MergeNode(sd.g, seen, "Crouton",
                     [id |-> payload.crouton_id, created_at |-> now], NoProps)
      sp == MergeNode(c.g, seen, "SourceParticipation",
                      [id |-> participationId(payload.crouton_id, payload.source_url),
                       ai_readable_source |-> payload.ai_readable_source,
                       markdown_discovered |-> payload.markdown_discovered,
                       discovery_method |-> OrElse(payload.discovery_method, "unknown"),
                       first_observed |-> OrElse(payload.first_observed, now),
                       last_verified |-> lastVerified,
                       created_at |-> now, updated_at |-> Null],
                      [last_verified |-> lastVerified, updated_at |-> now])
      h == MergeRel(sp.g, "HAS_PARTICIPATION", sd.bound, sp.bound, NoProps, {}, NoProps)
  IN MergeRel(h, "TRACKS_CROUTON", sp.bound, c.bound, NoProps, {}, NoProps)

\* The statement a transformer runs for event e, on graph g.
Cypher(g, seen, e, clock) ==
  IF e.event_type = "triple.insert" THEN TripleCypher(g, seen, e.payload, clock)
  ELSE IF e.event_type = "factlet.insert" THEN FactletCypher(g, seen, e.payload, clock)
  ELSE ParticipationCypher(g, seen, e.payload, clock)

\* The statement of event e run on g with no other statement in flight.
Apply(g, e, clock) == Cypher(g, Keys(g), e, clock)

\* A transformer reads the clock and calls session.run: the statement starts
\* and makes its matches.
RunBegin(w) ==
  /\ pc[w] = "transforming"
  /\ run[w] = NoRun
  /\ runs < MaxRuns
  /\ runs' = runs + 1
  /\ \E e \in GraphEvents, clock \in Clock :
       run' = [run EXCEPT ![w] = [event_type |-> e.event_type, payload |-> e.payload,
                                  clock |-> clock, seen |-> Keys(graph)]]
  /\ UNCHANGED <<outbox, locked, pc, batch, pos, errorMsg, graphWrites, concurrentWith,
                 soloClaim, faults, resets, procVars, claimCount, sinceWait, graph>>

\* The statement commits and session.run resolves.
RunCommit(w) ==
  /\ run[w] # NoRun
  /\ graph' = Cypher(graph, run[w].seen, run[w], run[w].clock)
  /\ run' = [run EXCEPT ![w] = NoRun]
  /\ UNCHANGED <<outbox, locked, pc, batch, pos, errorMsg, graphWrites, concurrentWith,
                 soloClaim, faults, resets, procVars, claimCount, sinceWait, runs>>

\* ------------------------------------------------------------ environment
\* UPDATE outbox_graph_events SET status='pending'
\* WHERE status='processing' AND occurred_at < NOW() - INTERVAL '5 minutes'
\* run by the operator at any time: `before` is the time NOW() - 5 minutes.
Stale(before) ==
  { id \in Ids : outbox[id].status = "processing" /\ outbox[id].occurred_at < before }

Reset ==
  /\ resets < MaxResets
  /\ resets' = resets + 1
  /\ \E before \in { outbox[id].occurred_at + 1 : id \in Ids } :
       /\ Stale(before) # {}
       /\ outbox' = [id \in Ids |->
                       IF id \in Stale(before) THEN [outbox[id] EXCEPT !.status = "pending"]
                       ELSE outbox[id]]
  /\ UNCHANGED <<locked, pc, batch, pos, errorMsg, graphWrites, concurrentWith, soloClaim,
                 faults, procVars, claimCount, sinceWait, graphVars>>

\* Mutant: the reset of failed rows touches the status only.
ResetFailedRowStatusOnly(row) == [row EXCEPT !.status = "pending"]

\* SET status='pending', attempts=0, error=null (runbook, "Reset failed events")
ResetFailedRow(row) ==
  [row EXCEPT !.status = "pending", !.attempts = 0, !.error = NoError]

\* UPDATE outbox_graph_events SET status='pending', attempts=0, error=null
\* WHERE status='failed', run by the operator at any time.
ResetFailed ==
  /\ resets < MaxResets
  /\ resets' = resets + 1
  /\ \E id \in Ids : outbox[id].status = "failed"
  /\ outbox' = [id \in Ids |->
                  IF outbox[id].status = "failed" THEN ResetFailedRow(outbox[id])
                  ELSE outbox[id]]
  /\ UNCHANGED <<locked, pc, batch, pos, errorMsg, graphWrites, concurrentWith, soloClaim,
                 faults, procVars, claimCount, sinceWait, graphVars>>

\* The graph store comes back within reach.
GraphRestored ==
  /\ ~stores.graph
  /\ stores' = [stores EXCEPT !.graph = TRUE]
  /\ UNCHANGED <<outbox, locked, pc, batch, pos, errorMsg, graphWrites, concurrentWith,
                 soloClaim, faults, resets, sig, exitCode, claimCount, sinceWait, graphVars>>

\* The first lines of worker() (index.js:185-186): `await pool.connect()` opens a
\* connection to the relational store; when it rejects, worker() rejects and
\* the catch of index.js:273-276 exits with code 1. driver.session() returns at
\* once, without any exchange with the graph store.
Connect(w) ==
  /\ pc[w] = "starting"
  /\ IF stores.db
       THEN pc' = [pc EXCEPT ![w] = "idle"] /\ UNCHANGED exitCode
       ELSE pc' = [pc EXCEPT ![w] = "exited"] /\ exitCode' = [exitCode EXCEPT ![w] = 1]
  /\ UNCHANGED <<outbox, locked, batch, pos, errorMsg, graphWrites, concurrentWith,
                 soloClaim, faults, resets, stores, sig, claimCount, sinceWait, graphVars>>

\* SIGINT or SIGTERM is delivered: the handler logs and calls driver.close(),
\* which shuts the driver's connections, and awaits it (index.js:258-260,
\* 265-267). The loop of worker() tests no flag and goes on at its own awaits.
Signal(w) ==
  /\ pc[w] \notin {"off", "starting", "exited"}
  /\ sig[w] = "none"
  /\ sig' = [sig EXCEPT ![w] = "closingDriver"]
  /\ UNCHANGED <<outbox, locked, pc, batch, pos, errorMsg, graphWrites, concurrentWith,
                 soloClaim, faults, resets, stores, exitCode, claimCount, sinceWait, graphVars>>

\* driver.close() resolves; the handler calls pool.end() and awaits it
\* (index.js:261, 268).
DriverClosed(w) ==
  /\ pc[w] # "exited"
  /\ sig[w] = "closingDriver"
  /\ sig' = [sig EXCEPT ![w] = "endingPool"]
  /\ UNCHANGED <<outbox, locked, pc, batch, pos, errorMsg, graphWrites, concurrentWith,
                 soloClaim, faults, resets, stores, exitCode, claimCount, sinceWait, graphVars>>

\* pool.end() resolves and the handler calls process.exit(0) (index.js:262, 269),
\* wherever the loop is; a claim statement still running is rolled back.
ProcessExit(w) ==
  /\ pc[w] # "exited"
  /\ sig[w] = "endingPool"
  /\ sig' = [sig EXCEPT ![w] = "exited"]
  /\ pc' = [pc EXCEPT ![w] = "exited"]
  /\ exitCode' = [exitCode EXCEPT ![w] = 0]
  /\ locked' = [locked EXCEPT ![w] = {}]
  /\ concurrentWith' = [concurrentWith EXCEPT ![w] = {}]
  /\ soloClaim' = [soloClaim EXCEPT ![w] = NoSolo]
  /\ UNCHANGED <<outbox, batch, pos, errorMsg, graphWrites, faults, resets, stores,
                 claimCount, sinceWait, graphVars>>

HandlerStep(w) ==
  \/ Signal(w)
  \/ DriverClosed(w)
  \/ ProcessExit(w)

WorkerStep(w) ==
  \/ ClaimSelect(w)
  \/ ClaimCommit(w)
  \/ ClaimFails(w)
  \/ Sleep(w)
  \/ Dispatch(w)
  \/ MarkDone(w)
  \/ MarkDoneFails(w)
  \/ MarkFailed(w)
  \/ MarkFailedFails(w)

NextNoReset == \E w \in Workers : WorkerStep(w)

Next == NextNoReset \/ Reset

Spec == Init /\ [][Next]_vars

\* The workers alone, without the operator's reset.
SpecNoReset == Init /\ [][NextNoReset]_vars

\* A single worker process.
SpecSolo == InitSolo /\ [][Next]_vars

\* A single worker, the graph store down at first, and the operator's reset of
\* failed rows.
NextDeadLetter == NextNoReset \/ ResetFailed \/ GraphRestored

SpecDeadLetter == InitDeadLetter /\ [][NextDeadLetter]_vars

\* The worker and the termination signal's handler.
NextSignal == \E w \in Workers : WorkerStep(w) \/ HandlerStep(w)

SpecSignal == InitSignal /\ [][NextSignal]_vars

\* The process from its launch.
NextStartup == \E w \in Workers : Connect(w) \/ WorkerStep(w)

SpecStartup == InitStartup /\ [][NextStartup]_vars

\* The transformers' statements on the graph store, the outbox left aside.
NextGraph == \E w \in Workers : RunBegin(w) \/ RunCommit(w)

\* Two sessions, their statements interleaved.
SpecGraph == InitGraph /\ [][NextGraph]_vars

\* One session: the statements run one after the other.
SpecGraphSolo == InitGraphSolo /\ [][NextGraph]_vars

\* The steps of worker() while the relational store executes every statement
\* (the graph store may still reject a write).
LiveStep(w) ==
  \/ ClaimSelect(w)
  \/ ClaimCommit(w)
  \/ Sleep(w)
  \/ Dispatch(w)
  \/ MarkDone(w)
  \/ MarkFailed(w)

NextLive == \E w \in Workers : LiveStep(w)

\* The rows of Init.
LiveIds == DOMAIN SubSeq(Inserted, 1, 2)

\* Both stores stay reachable, no process crashes, and every worker keeps
\* taking the steps of its loop: each await of worker() settles.
SpecLive == Init /\ [][NextLive]_vars /\ \A w \in Workers : WF_vars(LiveStep(w))

\* ====================================================================== claims
Terminal(id) == outbox[id].status \in {"done", "failed"}
OccurredAt(id) == outbox[id].occurred_at
BatchIds(w) == { batch[w][i].id : i \in DOMAIN batch[w] }

\* The event types the if/else chain of index.js:205-210 has a transformer for.
RecognizedKinds == {"triple.insert", "factlet.insert", "source_participation.insert"}

\* The event's kind is one the dispatch knows and a field its transformer
\* requires is missing or empty.
RequiredFieldMissing(id) ==
  LET kind == outbox[id].event_type
      payload == outbox[id].payload
  IN \/ kind = "triple.insert" /\ MissingTripleFields(payload)
     \/ kind = "factlet.insert" /\ MissingFactletFields(payload)
     \/ kind = "source_participation.insert" /\ MissingParticipationFields(payload)

ValidationMsgs == {TripleFieldsMsg, FactletFieldsMsg, ParticipationFieldsMsg}

\* g without the values of the properties `fields`.
Strip(g, fields) ==
  LET Without(props) == [k \in DOMAIN props |-> IF k \in fields THEN Null ELSE props[k]]
  IN [nodes |-> { [n EXCEPT !.props = Without(@)] : n \in g.nodes },
      rels |-> { [r EXCEPT !.props = Without(@)] : r \in g.rels }]

\* e applied to g once per clock value of the sequence clocks, in order.
RECURSIVE Repeat(_, _, _)
Repeat(g, e, clocks) ==
  IF clocks = <<>> THEN g
  ELSE Repeat(Apply(g, e, Head(clocks)), e, Tail(clocks))

\* The clock readings of 1 to MaxReps applications.
Readings == UNION { [1..n -> Clock] : n \in 1..MaxReps }

TimestampFields == {"created_at", "updated_at", "first_observed", "last_verified"}

\* The properties a repeated application of e's kind sets again.
SetOnMatch(e) ==
  IF e.event_type = "triple.insert" THEN {"updated_at"}
  ELSE IF e.event_type = "factlet.insert" THEN {}
  ELSE {"last_verified", "updated_at"}

\* Pairs of events of the same natural keys: two triples of one subject,
\* predicate and object with different created_at, and two source participations
\* of one crouton, domain and url with different last_verified.
TripleAt(t) ==
  [event_type |-> "triple.insert",
   payload |-> [subject |-> "A", predicate |-> "knows", object |-> "B", created_at |-> t]]

ParticipationAt(t) ==
  [event_type |-> "source_participation.insert",
   payload |-> [crouton_id |-> "c1", source_domain |-> "a.example",
                source_url |-> "https://a.example/p",
                ai_readable_source |-> TRUE, markdown_discovered |-> FALSE,
                discovery_method |-> "sitemap", first_observed |-> "T0",
                last_verified |-> t]]

FactletAt(t) ==
  [event_type |-> "factlet.insert",
   payload |-> [crouton_id |-> "c1", source_url |-> "https://a.example/p",
                text |-> "reworded", created_at |-> t]]

SameKeyPairs ==
  { <<TripleAt("T1"), TripleAt("T2")>>, <<ParticipationAt("T1"), ParticipationAt("T2")>> }

\* The properties written on creation only; the others (updated_at,
\* last_verified) are the repeat-observation fields.
CreationFields ==
  {"id", "name", "predicate", "fact_id", "claim", "url", "ai_readable_source",
   "markdown_discovered", "discovery_method", "first_observed", "created_at"}

\* Payloads other than those of GraphEvents that carry the keys of GraphEvents.
OtherPayloads == { TripleAt("T2"), FactletAt("T2"), ParticipationAt("T2") }

\* The properties that describe a node or relationship from its creation.
Descriptive == {"created_at", "name", "url", "claim"}

\* Every node and relationship of g is in h with its created_at and its
\* descriptive properties as they are in g.
Preserved(g, h) ==
  /\ \A n \in g.nodes :
       \E m \in h.nodes :
         /\ m.nid = n.nid /\ m.label = n.label
         /\ \A k \in Descriptive \cap DOMAIN n.props : m.props[k] = n.props[k]
  /\ \A r \in g.rels :
       \E q \in h.rels :
         /\ q.type = r.type /\ q.from = r.from /\ q.to = r.to
         /\ \A k \in Descriptive \cap DOMAIN r.props : q.props[k] = r.props[k]

\* Pairs (crouton_id, source_url) of source participations, both non-empty as
\* the validation of index.js:137 requires.
KeyPairs == { <<"a", "b:c">>, <<"a:b", "c">>, <<"a", "c">>, <<"c1", "https://a.example/p">> }

\* The source_participation.insert event of the pair p.
ParticipationOf(p) ==
  [event_type |-> "source_participation.insert",
   payload |-> [crouton_id |-> p[1], source_domain |-> "a.example", source_url |-> p[2],
                ai_readable_source |-> TRUE, markdown_discovered |-> FALSE,
                discovery_method |-> "sitemap", first_observed |-> "T0",
                last_verified |-> "T0"]]

\* The SourceParticipation nodes of g.
Participations(g) == { n \in g.nodes : n.label = "SourceParticipation" }

\* The records of w's batch whose outcome w has not written back yet.
InFlight(w) ==
  IF pc[w] \in {"dispatch", "markDone", "caught"}
    THEN { batch[w][i].id : i \in pos[w]..Len(batch[w]) }
    ELSE {}

\* ---------------------------------------------------------------------- C1
\* C1: two claim calls in flight at the same time by different workers take
\* disjoint sets of rows: the rows a claim takes (and returns on commit) are none
\* of the rows taken by any claim that overlaps it.
C1_ClaimExclusivity ==
  \A w \in Workers :
    pc[w] = "claiming" =>
      /\ locked[w] \cap concurrentWith[w] = {}
      /\ \A v \in Workers \ {w} : pc[v] = "claiming" => locked[v] \subseteq concurrentWith[w]

\* Two claims in flight together, each holding rows.
C1_Witness ==
  \E w, v \in Workers :
    /\ w # v
    /\ pc[w] = "claiming" /\ pc[v] = "claiming"
    /\ locked[w] # {} /\ locked[v] # {}

\* ---------------------------------------------------------------------- C2
\* C2: once a record's status is done or failed, no step of a worker (claim,
\* success write-back, failure write-back) changes its status, attempts or error.
\* (The reset leaves done and failed rows alone, so every step is covered.)
C2_TerminalRowsFrozen ==
  [][\A id \in Ids :
       Terminal(id) =>
         /\ outbox'[id].status = outbox[id].status
         /\ outbox'[id].attempts = outbox[id].attempts
         /\ outbox'[id].error = outbox[id].error]_vars

\* ---------------------------------------------------------------------- C3
\* C3: no step lowers a record's attempts.
C3_AttemptsNeverDecrease ==
  [][\A id \in Ids : outbox'[id].attempts >= outbox[id].attempts]_vars

\* ---------------------------------------------------------------------- C4
\* C4: the failure write-back of a record claimed with attempts = a sets attempts
\* to a + 1, error to the message of the caught error, and status to pending when
\* a + 1 < 5 and to failed when a + 1 >= 5.
C4_FailureWriteBack ==
  [][\A w \in Workers :
       MarkFailed(w) =>
         LET a == ev(w).attempts
             row == outbox'[ev(w).id]
         IN /\ row.attempts = a + 1
            /\ row.error = errorMsg[w]
            /\ row.error # NoError
            /\ (a + 1 < 5 => row.status = "pending")
            /\ (a + 1 >= 5 => row.status = "failed")]_vars

\* A record dead-lettered by its fifth failure, and another sent back to pending.
C4_Witness ==
  /\ \E id \in Ids :
       /\ outbox[id].status = "failed"
       /\ outbox[id].attempts = 5
       /\ outbox[id].error = TripleFieldsMsg
  /\ \E id \in Ids :
       /\ outbox[id].status = "pending"
       /\ outbox[id].attempts = 1
       /\ outbox[id].error = StoreErrorMsg

\* ---------------------------------------------------------------------- C5
\* C5: every record with status done has an empty error (the success write-back
\* clears it), also a record that failed on an earlier attempt.
C5_DoneHasNoError ==
  \A id \in Ids : outbox[id].status = "done" => outbox[id].error = NoError

\* ---------------------------------------------------------------------- C6
\* C6: a record is failed only with attempts >= 5; a step makes a record failed
\* only as the failure write-back of a worker holding it, with attempts >= 5
\* after it; and no failure write-back that leaves attempts >= 5 leaves the
\* record pending.
C6_FailedIffCapReached ==
  /\ [](\A id \in Ids : outbox[id].status = "failed" => outbox[id].attempts >= 5)
  /\ [][\A id \in Ids :
          (outbox[id].status # "failed" /\ outbox'[id].status = "failed") =>
            /\ outbox'[id].attempts >= 5
            /\ \E w \in Workers : MarkFailed(w) /\ ev(w).id = id]_vars
  /\ [][\A w \in Workers :
          (MarkFailed(w) /\ outbox'[ev(w).id].attempts >= 5) =>
            outbox'[ev(w).id].status = "failed"]_vars

\* A dead-lettered record, no worker holding it any more.
C6_Witness ==
  \E id \in Ids :
    /\ outbox[id].status = "failed"
    /\ \A w \in Workers : id \notin BatchIds(w)

\* ---------------------------------------------------------------------- C7
\* C7: without resets, a record in flight at one worker (returned by its claim,
\* outcome not yet written back) is in flight at no other worker and is taken by
\* no other worker's claim; it has status processing all the while.
C7_ClaimedInvisible ==
  \A w \in Workers :
    /\ \A id \in InFlight(w) : outbox[id].status = "processing"
    /\ \A v \in Workers \ {w} : InFlight(w) \cap (InFlight(v) \cup locked[v]) = {}

\* Both workers hold records in flight, and one of them has written an outcome
\* of its batch already.
C7_Witness ==
  \E w, v \in Workers :
    /\ w # v
    /\ InFlight(w) # {} /\ InFlight(v) # {}
    /\ \E id \in Ids : outbox[id].attempts > 0

\* ---------------------------------------------------------------------- C8
\* C8: a claim takes and returns only rows whose status is pending when it is
\* made: no failed, done or processing row is in a returned batch.
C8_ClaimsOnlyPending ==
  /\ [](\A w \in Workers : \A id \in locked[w] : outbox[id].status = "pending")
  /\ [][\A w \in Workers :
          ClaimCommit(w) =>
            \A i \in DOMAIN batch'[w] : outbox[batch'[w][i].id].status = "pending"]_vars

\* A claim has returned a batch while another record is dead-lettered.
C8_Witness ==
  \E w \in Workers :
    /\ pc[w] = "dispatch" /\ pos[w] = 1
    /\ \E id \in Ids \ BatchIds(w) : outbox[id].status = "failed"

\* ---------------------------------------------------------------------- C9
\* C9: the records of a claimed batch are processed in non-decreasing occurred_at
\* order: the for loop walks a batch that is sorted by occurred_at.
C9_BatchInOccurredAtOrder ==
  \A w \in Workers :
    \A i, j \in DOMAIN batch[w] :
      i < j => OccurredAt(batch[w][i].id) <= OccurredAt(batch[w][j].id)

\* --------------------------------------------------------------------- C10
\* C10: a claim with limit N that runs alone against k pending records returns
\* min(N, k) records, none of them newer than a pending record it leaves, all
\* of them processing afterwards, and max(0, k - N) records stay pending.
C10_ClaimReturnsOldest ==
  [][\A w \in Workers :
       (ClaimCommit(w) /\ soloClaim[w].solo /\ soloClaim[w].pending = Pending) =>
         LET k == Cardinality(Pending)
             got == { batch'[w][i].id : i \in DOMAIN batch'[w] }
         IN /\ Len(batch'[w]) = Min(BATCH_SIZE, k)
            /\ Cardinality(got) = Min(BATCH_SIZE, k)
            /\ got \subseteq Pending
            /\ \A s \in got : \A u \in Pending \ got : OccurredAt(s) <= OccurredAt(u)
            /\ \A s \in got : outbox'[s].status = "processing"
            /\ Cardinality({ id \in Ids : outbox'[id].status = "pending" })
                 = Max(0, k - BATCH_SIZE)]_vars

\* A lone claim has returned a full batch and left a pending record behind.
C10_Witness ==
  /\ pc["w1"] = "dispatch" /\ pos["w1"] = 1
  /\ Len(batch["w1"]) = BATCH_SIZE
  /\ Pending # {}
  /\ resets = 0 /\ faults = 0
  /\ \A id \in Ids : outbox[id].attempts = 0

\* --------------------------------------------------------------------- C11
\* C11: when a required payload field is missing or empty, the transformer throws
\* its validation error and no graph write is issued for the record, then or at
\* any time; the failure write-back of such a record claimed with attempts = 0
\* leaves it pending with attempts = 1 and the validation message as its error.
C11_MissingFieldFailsBeforeWrite ==
  /\ [](\A id \in Ids : RequiredFieldMissing(id) => id \notin graphWrites)
  /\ [][\A w \in Workers :
          (Dispatch(w) /\ RequiredFieldMissing(ev(w).id)) =>
            /\ graphWrites' = graphWrites
            /\ pc'[w] = "caught"
            /\ errorMsg'[w] \in ValidationMsgs]_vars
  /\ [][\A w \in Workers :
          (MarkFailed(w) /\ RequiredFieldMissing(ev(w).id) /\ ev(w).attempts = 0) =>
            /\ outbox'[ev(w).id].status = "pending"
            /\ outbox'[ev(w).id].attempts = 1
            /\ outbox'[ev(w).id].error \in ValidationMsgs]_vars

\* A record of each kind has failed its validation; the factlet one, claimed
\* with attempts 0, is pending with attempts 1.
C11_Witness ==
  \E t, f, p \in Ids :
    /\ outbox[t].error = TripleFieldsMsg
    /\ outbox[f].error = FactletFieldsMsg
    /\ outbox[f].status = "pending" /\ outbox[f].attempts = 1
    /\ outbox[p].error = ParticipationFieldsMsg
    /\ {t, f, p} \cap graphWrites = {}

\* --------------------------------------------------------------------- C12
\* C12: a record whose event_type is none of the recognized kinds gets no graph
\* write and is never given a failure outcome: it never carries an error, is
\* never dead-lettered, and once it has been processed (attempts > 0) it is done.
C12_UnknownKindOnlyDone ==
  \A id \in Ids :
    outbox[id].event_type \notin RecognizedKinds =>
      /\ id \notin graphWrites
      /\ outbox[id].error = NoError
      /\ outbox[id].status # "failed"
      /\ (outbox[id].attempts > 0 => outbox[id].status = "done")

C14_EveryRecordSettles ==
  \A id \in LiveIds :
    (outbox[id].status \in {"pending", "processing"}) ~> Terminal(id)

\* Every record has settled: the one that always fails is dead-lettered after
\* its fifth attempt, the well-formed one is done after a failed first attempt.
C14_Witness ==
  /\ \A id \in Ids : Terminal(id)
  /\ \E id \in Ids : outbox[id].status = "failed" /\ outbox[id].attempts = MAX_ATTEMPTS
  /\ \E id \in Ids : outbox[id].status = "done" /\ outbox[id].attempts = 2

\* --------------------------------------------------------------------- C15
\* C15: a record of a recognized kind with status done has had a graph write
\* complete, and a worker issues the done write-back of such a record only when
\* its session.run for the record has completed: never after a validation error
\* or a rejected write.
C15_DoneOnlyAfterGraphWrite ==
  /\ [](\A id \in Ids :
         (outbox[id].status = "done" /\ outbox[id].event_type \in RecognizedKinds) =>
           id \in graphWrites)
  /\ [](\A w \in Workers :
         (pc[w] = "markDone" /\ outbox[ev(w).id].event_type \in RecognizedKinds) =>
           (ev(w).id \in graphWrites /\ ~RequiredFieldMissing(ev(w).id)))
  /\ [][\A w \in Workers :
          (pc[w] = "dispatch" /\ pc'[w] = "markDone"
             /\ outbox[ev(w).id].event_type \in RecognizedKinds) =>
            (ev(w).id \in graphWrites' /\ errorMsg'[w] = NoError)]_vars

\* A record is done on its second attempt, the first one's graph write rejected.
C15_Witness ==
  \E id \in Ids :
    /\ outbox[id].status = "done"
    /\ outbox[id].attempts = 2
    /\ outbox[id].error = StoreErrorMsg
    /\ id \in graphWrites

\* --------------------------------------------------------------------- C16
\* C16: when a termination signal arrives while a record is in flight, no store
\* connection is closed before the record's graph write and outcome write-back
\* are complete (the graph driver stays usable as long as a record is in
\* flight, and the process does not exit with one), and once the signal has
\* arrived the worker issues no further claim.
C16_GracefulShutdown ==
  [][\A w \in Workers :
       /\ (GraphUsable(w) /\ ~GraphUsable(w)') => InFlight(w) = {}
       /\ (pc[w] # "exited" /\ pc'[w] = "exited") => InFlight(w) = {}
       /\ sig[w] # "none" => ~(pc[w] = "idle" /\ pc'[w] = "claiming")]_vars

\* --------------------------------------------------------------------- C19
\* C19: when the claim call rejects, no outbox row changes, the worker holds no
\* batch and has not exited, and it waits: its next position is the poll-interval
\* sleep, from which it can only go back to the top of the loop, where the only
\* thing it does is claim again.
C19_ClaimFailureBacksOff ==
  [][\A w \in Workers :
       /\ (pc[w] = "claiming" /\ faults' # faults) =>
            /\ outbox' = outbox
            /\ batch'[w] = <<>>
            /\ pc'[w] = "sleeping"
            /\ exitCode'[w] = -1
       /\ (pc[w] = "sleeping" /\ pc'[w] # "sleeping") => pc'[w] = "idle"
       /\ (pc[w] = "idle" /\ pc'[w] # "idle") => pc'[w] = "claiming"]_vars

\* A claim has been rejected, nothing in the table has changed, and the worker
\* is claiming again.
C19_Witness ==
  /\ faults = 1 /\ resets = 0
  /\ \A id \in Ids : outbox[id].status = "pending" /\ outbox[id].attempts = 0
  /\ pc["w1"] = "claiming" /\ locked["w1"] # {}

\* --------------------------------------------------------------------- C20
\* C20: when the relational store or the graph store cannot be reached at
\* startup, the process gets no further than its startup: it issues no claim,
\* and when it has exited its exit code is not zero.
C20_StartupFailureIsFatal ==
  (~stores.db \/ ~stores.graph) =>
    \A w \in Workers :
      /\ pc[w] \in {"off", "starting", "exited"}
      /\ pc[w] = "exited" => exitCode[w] > 0

\* --------------------------------------------------------------------- C17
\* C17 as stated: for each event kind, applying a payload N >= 1 times to a graph
\* leaves the nodes, relationships and property values that applying it once
\* leaves, except for the value of one timestamp property.
C17_IdempotentButOneField ==
  \A e \in GraphEvents :
    \E f \in TimestampFields :
      \A clocks \in Readings :
        Strip(Repeat(graph, e, clocks), {f}) = Strip(Apply(graph, e, clocks[1]), {f})

\* C17 amended: applying a payload N >= 1 times leaves what applying it once
\* leaves, except for updated_at of the ASSERTS relationship (triple.insert) and
\* for last_verified and updated_at of the SourceParticipation node
\* (source_participation.insert); for factlet.insert nothing differs.
C17_IdempotentButSetOnMatch ==
  \A e \in GraphEvents :
    \A clocks \in Readings :
      Strip(Repeat(graph, e, clocks), SetOnMatch(e))
        = Strip(Apply(graph, e, clocks[1]), SetOnMatch(e))

\* A source participation has been applied twice at different clock readings:
\* its node carries the second reading in last_verified and in updated_at.
C17_Witness ==
  \E n \in graph.nodes :
    /\ n.label = "SourceParticipation"
    /\ n.props.updated_at # Null
    /\ n.props.last_verified = n.props.updated_at
    /\ n.props.last_verified # n.props.first_observed

\* --------------------------------------------------------------------- C18
\* C18: however the transformers' statements of one or more workers interleave,
\* replays included, the graph holds at most one node per (label, id).
C18_OneNodePerKey ==
  \A n, m \in graph.nodes :
    (n.label = m.label /\ n.props.id = m.props.id) => n.nid = m.nid

\* --------------------------------------------------------------------- C21
\* C21: a claim never waits for the rows another worker's claim in flight has
\* locked: a worker at the top of its loop can always run its claim, a claim in
\* flight can always complete, and the claim takes none of the rows locked by
\* others and as many of the other pending rows as its limit allows.
C21_ClaimNeverWaits ==
  /\ [](\A w \in Workers :
         /\ pc[w] = "idle" => ENABLED ClaimSelect(w)
         /\ pc[w] = "claiming" => ENABLED ClaimCommit(w))
  /\ [][\A w \in Workers :
          (pc[w] = "idle" /\ pc'[w] = "claiming") =>
            LET others == UNION { locked[v] : v \in Workers \ {w} }
            IN /\ locked'[w] \cap others = {}
               /\ locked'[w] \subseteq Pending
               /\ Cardinality(locked'[w])
                    = Min(BATCH_SIZE, Cardinality(Pending \ others))]_vars

\* One claim in flight holds every pending row; another worker's claim, made
\* meanwhile, has come back from its subselect with no row.
C21_Witness ==
  \E w, v \in Workers :
    /\ w # v
    /\ pc[w] = "claiming" /\ pc[v] = "claiming"
    /\ locked[w] = Pending /\ Pending # {}
    /\ locked[v] = {}
    /\ locked[w] \subseteq concurrentWith[v]

\* --------------------------------------------------------------------- C22
\* C22: between two consecutive processing attempts of one record by a worker
\* the worker waits at least one poll interval: a worker never starts to process
\* a record it has already processed since its last wait.
C22_RetriesSpacedByWait ==
  \A w \in Workers :
    pc[w] = "dispatch" => ev(w).id \notin sinceWait[w]

\* --------------------------------------------------------------------- C23
\* C23: for two events of the same natural keys, the graph ends with the same
\* values of the repeat-observation fields (updated_at, last_verified) whichever
\* of the two is applied first.
C23_SameKeyEventsCommute ==
  \A p \in SameKeyPairs :
    \A c \in Clock :
      Strip(Apply(Apply(graph, p[1], c), p[2], c), CreationFields)
        = Strip(Apply(Apply(graph, p[2], c), p[1], c), CreationFields)

\* --------------------------------------------------------------------- C24
\* C24: once a node or relationship exists, no later statement of a transformer,
\* of the same payload or of another payload with the same key, changes its
\* created_at or the descriptive properties set on creation (Entity.name,
\* WebPage.url, Factlet.claim, SourceDomain.name).
C24_CreationPropertiesKept ==
  /\ [][Preserved(graph, graph')]_vars
  /\ [](\A e \in GraphEvents \cup OtherPayloads :
          \A c \in Clock : Preserved(graph, Apply(graph, e, c)))

\* The SourceDomain node created by the participation of c1 at a reading of the
\* clock was matched by the participation of c2, first observed at T0.
C24_Witness ==
  /\ \E n \in graph.nodes :
       /\ n.label = "SourceDomain" /\ n.props.created_at \in Clock
       /\ \A m \in graph.nodes : m.label = "SourceDomain" => m = n
  /\ \E n \in graph.nodes :
       /\ n.label = "SourceParticipation"
       /\ n.props.id = sha256("c2:https://a.example/q")
  /\ \E n \in graph.nodes : n.label = "Factlet"

\* --------------------------------------------------------------------- C25
\* C25: no step changes a record's id, event_type, payload or occurred_at, and
\* none deletes a record; the claim's UPDATE changes the status only, of the
\* rows it has locked, and leaves attempts and error as they were.
C25_RecordFrame ==
  [][/\ DOMAIN outbox' = DOMAIN outbox
     /\ \A id \in Ids :
          /\ outbox'[id].event_type = outbox[id].event_type
          /\ outbox'[id].payload = outbox[id].payload
          /\ outbox'[id].occurred_at = outbox[id].occurred_at
     /\ \A w \in Workers :
          (pc[w] = "claiming" /\ pc'[w] # "claiming") =>
            \A id \in Ids :
              /\ outbox'[id].attempts = outbox[id].attempts
              /\ outbox'[id].error = outbox[id].error
              /\ outbox'[id].status # outbox[id].status =>
                   id \in locked[w] /\ outbox'[id].status = "processing"]_vars

\* A record that failed once has been claimed again: it is in a worker's batch,
\* in status processing, with the attempts and the error of its failure.
C25_Witness ==
  \E w \in Workers :
    \E id \in BatchIds(w) :
      /\ outbox[id].status = "processing"
      /\ outbox[id].attempts = 1
      /\ outbox[id].error = TripleFieldsMsg

\* --------------------------------------------------------------------- C26
\* C26: a transformer invocation issues one graph write when the validation
\* passes (the write completes, or it rejects and its error is caught) and none
\* when the validation fails, and it leaves the outbox table as it is: the table
\* changes only in a step of the claim or of the outcome write-back (or by the
\* operator's reset).
C26_TransformerWritesGraphOnly ==
  [][/\ \A w \in Workers :
          (pc[w] = "dispatch" /\ pc'[w] # "dispatch") =>
            LET id == ev(w).id
            IN /\ outbox' = outbox
               /\ graphWrites \subseteq graphWrites'
               /\ graphWrites' \ graphWrites \subseteq {id}
               /\ IF outbox[id].event_type \notin RecognizedKinds
                    THEN graphWrites' = graphWrites /\ pc'[w] = "markDone"
                    ELSE IF RequiredFieldMissing(id)
                      THEN /\ graphWrites' = graphWrites
                           /\ pc'[w] = "caught" /\ errorMsg'[w] \in ValidationMsgs
                      ELSE \/ id \in graphWrites' /\ pc'[w] = "markDone"
                           \/ /\ graphWrites' = graphWrites
                              /\ pc'[w] = "caught" /\ errorMsg'[w] = StoreErrorMsg
     /\ outbox' # outbox =>
          \/ resets' # resets
          \/ \E w \in Workers :
               pc[w] \in {"claiming", "markDone", "caught"} /\ pc'[w] # pc[w]]_vars

\* The transformers have run for a well-formed factlet, whose write completed,
\* and for a factlet without source_url, which got no write; the worker is about
\* to call the next transformer.
C26_Witness ==
  /\ \E w \in Workers : pc[w] = "dispatch"
  /\ \E f, g \in Ids :
       /\ outbox[f].event_type = "factlet.insert" /\ f \in graphWrites
       /\ outbox[f].status = "done" /\ outbox[f].error = NoError
       /\ outbox[g].event_type = "factlet.insert" /\ RequiredFieldMissing(g)
       /\ outbox[g].attempts > 0 /\ g \notin graphWrites

\* --------------------------------------------------------------------- C27
\* C27: every record a claim returned has received its outcome write-back
\* before the worker issues its next claim, also when a write-back query fails:
\* when a worker is about to claim or is claiming, no row is in status
\* processing unless it is in flight in another worker's batch.
C27_WriteBackBeforeNextClaim ==
  \A w \in Workers :
    pc[w] \in {"idle", "claiming"} =>
      \A id \in Ids :
        outbox[id].status = "processing" => \E v \in Workers \ {w} : id \in InFlight(v)

\* --------------------------------------------------------------------- C28
\* C28: a termination signal causes no failure outcome by itself: while both
\* stores are within reach and no store call has rejected for another reason,
\* no record carries a store error, with its attempts counted, because the
\* handler closed the driver under the running loop.
C28_SignalCausesNoFailure ==
  (faults = 0 /\ stores.graph /\ stores.db) =>
    \A id \in Ids :
      outbox[id].error \notin {StoreErrorMsg, QueryErrorMsg}

\* --------------------------------------------------------------------- C29
\* C29: the string processSourceParticipation digests is an injective function
\* of (crouton_id, source_url): two pairs that differ give different
\* participation ids, and the events of two different pairs, applied one after
\* the other, end on two different SourceParticipation nodes.
C29_ParticipationIdInjective ==
  \A p, q \in KeyPairs :
    p # q =>
      /\ participationId(p[1], p[2]) # participationId(q[1], q[2])
      /\ \A c \in Clock :
           LET g == Apply(Apply(graph, ParticipationOf(p), c), ParticipationOf(q), c)
           IN \E m, n \in Participations(g) :
                /\ m # n
                /\ m.props.id = participationId(p[1], p[2])
                /\ n.props.id = participationId(q[1], q[2])
====
